---- MODULE Spec2Model ----
(***************************************************************************)
(* Model of the crop-rectangle editor of EZ Crop & Crop                    *)
(* (src/ez_crop_and_crop.py): class CropOverlay and the VideoCropper slots *)
(* that drive it.                                                          *)
(*                                                                         *)
(* Numbers.  The source computes with Python floats and truncates with     *)
(* int().  Every float of the model is a ratio of two integers, kept as a  *)
(* pair <<num, den>>, and int() is truncation toward zero (Trunc).  For    *)
(* the aspect presets (1, 4/5, 1.91, 9/16), the display scales the model   *)
(* uses (1, 1/2, 45/4, 45/8) and operands below 3000 the IEEE double       *)
(* results of the source agree with the exact ones.                        *)
(*                                                                         *)
(* None.  aspect_ratio = None is the pair <<0, 1>> (falsy, exactly as the  *)
(* source tests it with "if self.aspect_ratio"); drag_edge = None and      *)
(* crop_end = None are the string "None" and the number -1.                *)
(***************************************************************************)
EXTENDS Integers, Sequences, FiniteSets, TLC

\* ------------------------------------------------------------------ bounds
\* video frame sizes a load can deliver
FrameSizes == {<<640, 360>>, <<48, 32>>}
\* sizes of the video label (the overlay's parent)
DisplaySizes == {<<640, 360>>, <<320, 180>>}
\* frame count of the loaded videos
MaxFrames == 2
\* handler calls in a run of the editor (Spec)
MaxSteps == 4
\* handler calls in a run of preset changes and loads (SpecAspect)
MaxChain == 10
\* handler calls in a run with playback (SpecPlayback)
MaxTicks == 5
\* handler calls in a run of edge resizes (SpecEdge)
MaxEdgeSteps == 5
\* pointer positions of move events (display coordinates)
MoveXs == {-40, 150, 700}
MoveYs == {-40, 100, 400}
\* values typed into the X / Y / W / H fields
FieldXs == {-5, 500}
FieldYs == {0, 340}
FieldWs == {0, 1000}
FieldHs == {10, 1000}

\* ------------------------------------------------------------ arithmetic
Min(a, b) == IF a <= b THEN a ELSE b
Max(a, b) == IF a >= b THEN a ELSE b
Abs(a) == IF a >= 0 THEN a ELSE -a

\* int(a / b) for integers a and b > 0: truncation toward zero
Trunc(a, b) == IF a >= 0 THEN a \div b ELSE -((-a) \div b)
\* int(v * r) and int(v / r) for a float r = <<num, den>>
IntMul(v, r) == Trunc(v * r[1], r[2])
IntDiv(v, r) == Trunc(v * r[2], r[1])

None == <<0, 1>>
Truthy(r) == r[1] # 0

ASPECT_PRESETS ==
    [Manual |-> None,
     Square |-> <<1, 1>>,
     Portrait |-> <<4, 5>>,
     Landscape |-> <<191, 100>>,
     StoryReel |-> <<9, 16>>,
     CarouselPortrait |-> <<4, 5>>,
     CarouselSquare |-> <<1, 1>>,
     CarouselLandscape |-> <<191, 100>>]

min_size == 32
edge_margin == 10
corner_size == 15

VARIABLES
    video_size,         \* CropOverlay.video_size  <<w, h>>
    aspect_ratio,       \* CropOverlay.aspect_ratio
    crop,               \* CropOverlay.crop  <<x, y, w, h>>
    dragging, resizing, drag_edge, drag_offset,
    parent_size,        \* size of the parent video label
    ratio_w,            \* CropOverlay.ratio_w (= ratio_h)
    offset_x, offset_y, scaled_video_size,
    crop_rect,          \* CropOverlay.crop_rect  <<left, top, width, height>>
    cursor,             \* the cursor shape last handed to setCursor
    video_cap,          \* VideoCropper.video_cap is set (a video is loaded)
    frame_count, timeline, crop_end, playing,
    held,               \* mouse buttons physically held down
    err,                \* exception raised by a handler, "none" if none
    lastOp,             \* the handler that ran last
    budget              \* handler calls left in the run

vars == <<video_size, aspect_ratio, crop, dragging, resizing, drag_edge,
          drag_offset, parent_size, ratio_w, offset_x, offset_y,
          scaled_video_size, crop_rect, cursor, video_cap, frame_count,
          timeline, crop_end, playing, held, err, lastOp, budget>>

\* ---------------------------------------------------- CropOverlay, pure part

\* update_crop_rect: the display transform and the display rectangle
update_crop_rect(c, vs, ps) ==
    LET ratio == IF ps[1] * vs[2] <= ps[2] * vs[1]
                 THEN <<ps[1], vs[1]>> ELSE <<ps[2], vs[2]>>
        scaled_w == IntMul(vs[1], ratio)
        scaled_h == IntMul(vs[2], ratio)
        ox == (ps[1] - scaled_w) \div 2
        oy == (ps[2] - scaled_h) \div 2
    IN [ratio |-> ratio,
        offset_x |-> ox,
        offset_y |-> oy,
        scaled |-> <<scaled_w, scaled_h>>,
        rect |-> <<ox + IntMul(c[1], ratio), oy + IntMul(c[2], ratio),
                   IntMul(c[3], ratio), IntMul(c[4], ratio)>>]

\* the comparison of w / h with the aspect, turned around
RatioBelow(w, h, a) == w * a[2] < a[1] * h

\* w / h > aspect, for h > 0 (h = 0 raises, see snap_raises)
RatioAbove(w, h, a) == w * a[2] > a[1] * h

\* set_crop without the clamp of w to the room right of x
set_crop_unclamped(c, vs, a) ==
    LET x == Max(0, Min(c[1], vs[1] - min_size))
        y == Max(0, Min(c[2], vs[2] - min_size))
        w == Max(min_size, c[3])
        h == Max(min_size, Min(c[4], vs[2] - y))
    IN IF Truthy(a)
       THEN IF RatioAbove(w, h, a)
            THEN <<x, y, IntMul(h, a), h>>
            ELSE <<x, y, w, IntDiv(w, a)>>
       ELSE <<x, y, w, h>>

\* set_crop deriving the width as int(h / aspect)
set_crop_inverted(c, vs, a) ==
    LET x == Max(0, Min(c[1], vs[1] - min_size))
        y == Max(0, Min(c[2], vs[2] - min_size))
        w == Max(min_size, Min(c[3], vs[1] - x))
        h == Max(min_size, Min(c[4], vs[2] - y))
    IN IF Truthy(a)
       THEN IF RatioAbove(w, h, a)
            THEN <<x, y, IntDiv(h, a), h>>
            ELSE <<x, y, w, IntDiv(w, a)>>
       ELSE <<x, y, w, h>>

\* set_crop: the rectangle stored for the requested one
set_crop(c, vs, a) ==
    LET x == Max(0, Min(c[1], vs[1] - min_size))
        y == Max(0, Min(c[2], vs[2] - min_size))
        w == Max(min_size, Min(c[3], vs[1] - x))
        h == Max(min_size, Min(c[4], vs[2] - y))
    IN IF Truthy(a)
       THEN IF RatioAbove(w, h, a)
            THEN <<x, y, IntMul(h, a), h>>
            ELSE <<x, y, w, IntDiv(w, a)>>
       ELSE <<x, y, w, h>>

\* update_video_size storing the new size with width and height swapped
update_video_size_swapped(new_size) == <<0, 0, new_size[2], new_size[1]>>

\* update_video_size: the rectangle after a change of the video size
update_video_size(new_size) == <<0, 0, new_size[1], new_size[2]>>

\* snap_to_aspect raises ZeroDivisionError at "w / h"
snap_raises(c, a) == Truthy(a) /\ c[4] = 0

\* snap_to_aspect keeping the top-left corner instead of the center
snap_to_aspect_anchored(c, vs, a) ==
    IF ~Truthy(a) THEN c
    ELSE LET w == IF RatioAbove(c[3], c[4], a) THEN IntMul(c[4], a) ELSE c[3]
             h == IF RatioAbove(c[3], c[4], a) THEN c[4] ELSE IntDiv(c[3], a)
             x == Max(0, Min(c[1], vs[1] - w))
             y == Max(0, Min(c[2], vs[2] - h))
         IN <<x, y, w, h>>

\* snap_to_aspect: the rectangle after re-snapping around the center
snap_to_aspect(c, vs, a) ==
    IF ~Truthy(a) THEN c
    ELSE LET center_x == c[1] + c[3] \div 2
             center_y == c[2] + c[4] \div 2
             w == IF RatioAbove(c[3], c[4], a) THEN IntMul(c[4], a) ELSE c[3]
             h == IF RatioAbove(c[3], c[4], a) THEN c[4] ELSE IntDiv(c[3], a)
             x == Max(0, Min(center_x - w \div 2, vs[1] - w))
             y == Max(0, Min(center_y - h \div 2, vs[2] - h))
         IN <<x, y, w, h>>

\* ------------------------------------------------------------ QRect helpers
RLeft(r) == r[1]
RTop(r) == r[2]
RRight(r) == r[1] + r[3] - 1
RBottom(r) == r[2] + r[4] - 1
\* QRect.contains(QPoint) for a rectangle of non-negative width and height
Contains(r, p) ==
    /\ RLeft(r) <= p[1] /\ p[1] <= RRight(r)
    /\ RTop(r) <= p[2] /\ p[2] <= RBottom(r)

\* the four corner hit boxes, in the order the source iterates them
CornerNames == <<"top-left", "top-right", "bottom-left", "bottom-right">>
CornerArea(r, name) ==
    CASE name = "top-left" -> <<RLeft(r), RTop(r), corner_size, corner_size>>
      [] name = "top-right" ->
            <<RRight(r) - corner_size, RTop(r), corner_size, corner_size>>
      [] name = "bottom-left" ->
            <<RLeft(r), RBottom(r) - corner_size, corner_size, corner_size>>
      [] name = "bottom-right" ->
            <<RRight(r) - corner_size, RBottom(r) - corner_size,
              corner_size, corner_size>>

\* the first corner whose hit box contains pos, "None" if there is none
HitCorner(r, pos) ==
    LET hits == {i \in 1..4 : Contains(CornerArea(r, CornerNames[i]), pos)}
    IN IF hits = {} THEN "None"
       ELSE CornerNames[CHOOSE i \in hits : \A j \in hits : i <= j]

OnLeft(r, pos) ==
    Abs(pos[1] - RLeft(r)) < edge_margin /\ RTop(r) <= pos[2] /\ pos[2] <= RBottom(r)
OnRight(r, pos) ==
    Abs(pos[1] - RRight(r)) < edge_margin /\ RTop(r) <= pos[2] /\ pos[2] <= RBottom(r)
OnTop(r, pos) ==
    Abs(pos[2] - RTop(r)) < edge_margin /\ RLeft(r) <= pos[1] /\ pos[1] <= RRight(r)
OnBottom(r, pos) ==
    Abs(pos[2] - RBottom(r)) < edge_margin /\ RLeft(r) <= pos[1] /\ pos[1] <= RRight(r)

\* the edge the press captures when no corner matched (Manual mode only)
HitEdge(r, pos) ==
    IF OnLeft(r, pos) THEN "left"
    ELSE IF OnRight(r, pos) THEN "right"
    ELSE IF OnTop(r, pos) THEN "top"
    ELSE IF OnBottom(r, pos) THEN "bottom"
    ELSE "None"

\* the cursor shape mouseMoveEvent hands to setCursor for a pointer position
CursorFor(r, pos, a) ==
    LET c == HitCorner(r, pos)
    IN IF c \in {"top-left", "bottom-right"} THEN "SizeFDiag"
       ELSE IF c \in {"top-right", "bottom-left"} THEN "SizeBDiag"
       ELSE IF ~Truthy(a)
            THEN IF OnLeft(r, pos) \/ OnRight(r, pos) THEN "SizeHor"
                 ELSE IF OnTop(r, pos) \/ OnBottom(r, pos) THEN "SizeVer"
                 ELSE IF Contains(r, pos) THEN "SizeAll" ELSE "Cross"
            ELSE IF Contains(r, pos) THEN "SizeAll" ELSE "Cross"

\* ------------------------------------------------- mouseMoveEvent, pure part

\* the rectangle a whole-rectangle drag hands to set_crop
MoveRequest(pos, c, rect, doff, ox, oy, scaled, ratio) ==
    LET ntx == pos[1] - doff[1]
        nty == pos[2] - doff[2]
        new_x == Max(ox, Min(ntx, ox + scaled[1] - rect[3]))
        new_y == Max(oy, Min(nty, oy + scaled[2] - rect[4]))
        video_x == IntDiv(new_x - ox, ratio)
        video_y == IntDiv(new_y - oy, ratio)
    IN <<video_x, video_y, c[3], c[4]>>

\* the aspect-locked tail shared by the four corner branches
AspectClip(new_x, new_y, new_w0, vs, a) ==
    LET new_w == Max(min_size, new_w0)
        new_h == IntDiv(new_w, a)
    IN IF new_y + new_h > vs[2]
       THEN <<new_x, new_y, IntMul(vs[2] - new_y, a), vs[2] - new_y>>
       ELSE <<new_x, new_y, new_w, new_h>>

\* the rectangle a corner drag hands to set_crop
CornerRequest(edge, c, vs, a, mouse_vx, mouse_vy) ==
    LET x == c[1]
        y == c[2]
        w == c[3]
        h == c[4]
        left_x == Min(mouse_vx, x + w - min_size)
        top_y == Min(mouse_vy, y + h - min_size)
        new_x == IF edge \in {"top-left", "bottom-left"} THEN left_x ELSE x
        new_y == IF edge \in {"top-left", "top-right"} THEN top_y ELSE y
        new_w == IF edge \in {"top-left", "bottom-left"}
                 THEN w + (x - new_x) ELSE Max(min_size, mouse_vx - x)
        new_h == IF edge \in {"top-left", "top-right"}
                 THEN h + (y - new_y) ELSE Max(min_size, mouse_vy - y)
    IN IF Truthy(a) THEN AspectClip(new_x, new_y, new_w, vs, a)
       ELSE <<new_x, new_y, new_w, new_h>>

\* the rectangle an edge drag hands to set_crop (Manual mode)
EdgeRequest(edge, c, vs, pos, ox, oy, scaled, ratio) ==
    LET x == c[1]
        y == c[2]
        w == c[3]
        h == c[4]
        px == Max(ox, Min(pos[1], ox + scaled[1]))
        py == Max(oy, Min(pos[2], oy + scaled[2]))
        video_x == IntDiv(px - ox, ratio)
        video_y == IntDiv(py - oy, ratio)
    IN CASE edge = "left" ->
              LET new_x == Min(video_x, x + w - min_size)
              IN <<new_x, y, w + (x - new_x), h>>
         [] edge = "right" ->
              <<x, y, Max(min_size, Min(video_x - x, vs[1] - x)), h>>
         [] edge = "top" ->
              LET new_y == Min(video_y, y + h - min_size)
              IN <<x, new_y, w, h + (y - new_y)>>
         [] edge = "bottom" ->
              <<x, y, w, Max(min_size, Min(video_y - y, vs[2] - y))>>

Corners == {"top-left", "top-right", "bottom-left", "bottom-right"}
Edges == {"left", "right", "top", "bottom"}

\* the resize branch raises ZeroDivisionError at "aspect = ... (w / h)"
resize_raises(c, a) == ~Truthy(a) /\ c[4] = 0

\* ------------------------------------------------------------------ inputs
MovePoints == MoveXs \X MoveYs

\* pointer positions of press events: inside each corner handle, on each
\* edge, in the middle of the rectangle and outside it
PressPoints(r) ==
    LET mx == RLeft(r) + r[3] \div 2
        my == RTop(r) + r[4] \div 2
    IN {<<RLeft(r) + 3, RTop(r) + 3>>,
        <<RRight(r) - 5, RTop(r) + 3>>,
        <<RLeft(r) + 3, RBottom(r) - 5>>,
        <<RRight(r) - 5, RBottom(r) - 5>>,
        <<RLeft(r) + 2, my>>, <<RRight(r) - 2, my>>,
        <<mx, RTop(r) + 2>>, <<mx, RBottom(r) - 2>>,
        <<mx, my>>,
        <<RLeft(r) - 20, RTop(r) - 20>>}

Buttons == {"Left", "Right"}

\* ------------------------------------------------------------------- state
\* the state after construction of the window
Start ==
    /\ video_size = <<640, 360>>
    /\ aspect_ratio = None
    /\ crop = <<0, 0, 640, 360>>
    /\ dragging = FALSE
    /\ resizing = FALSE
    /\ drag_edge = "None"
    /\ drag_offset = <<0, 0>>
    /\ parent_size \in DisplaySizes
    /\ LET d == update_crop_rect(crop, video_size, parent_size)
       IN /\ ratio_w = d.ratio
          /\ offset_x = d.offset_x
          /\ offset_y = d.offset_y
          /\ scaled_video_size = d.scaled
          /\ crop_rect = d.rect
    /\ cursor = "Cross"
    /\ video_cap = FALSE
    /\ frame_count = 0
    /\ timeline = 0
    /\ crop_end = -1
    /\ playing = FALSE
    /\ held = {}
    /\ err = "none"
    /\ lastOp = "init"

\* a run of the editor
Init == Start /\ budget = MaxSteps
\* a run of preset changes and loads
InitAspect == Start /\ budget = MaxChain
\* a run with playback
InitPlayback == Start /\ budget = MaxTicks
\* a run of edge resizes
InitEdge == Start /\ budget = MaxEdgeSteps

overlay_vars == <<video_size, aspect_ratio, crop, dragging, resizing,
                  drag_edge, drag_offset, parent_size, ratio_w, offset_x,
                  offset_y, scaled_video_size, crop_rect, cursor>>
display_vars == <<ratio_w, offset_x, offset_y, scaled_video_size, crop_rect>>
drag_vars == <<dragging, resizing, drag_edge, drag_offset>>
playback_vars == <<video_cap, frame_count, timeline, crop_end, playing>>

\* bookkeeping of a handler call
Ran(op) == budget > 0 /\ budget' = budget - 1 /\ lastOp' = op

\* the assignments of update_crop_rect, for the state after the step
Refresh(c, vs, ps) ==
    LET d == update_crop_rect(c, vs, ps)
    IN /\ ratio_w' = d.ratio
       /\ offset_x' = d.offset_x
       /\ offset_y' = d.offset_y
       /\ scaled_video_size' = d.scaled
       /\ crop_rect' = d.rect

\* ----------------------------------------------------------------- actions

\* VideoCropper.change_aspect_mode -> CropOverlay.set_aspect_ratio
change_aspect_mode(mode) ==
    /\ err = "none"
    /\ Ran("set_aspect_ratio")
    /\ aspect_ratio' = ASPECT_PRESETS[mode]
    /\ IF snap_raises(crop, aspect_ratio')
       THEN /\ err' = "ZeroDivisionError"
            /\ UNCHANGED <<crop, display_vars>>
       ELSE /\ err' = err
            /\ crop' = snap_to_aspect(crop, video_size, aspect_ratio')
            /\ IF Truthy(aspect_ratio')
               THEN Refresh(crop', video_size, parent_size)
               ELSE UNCHANGED display_vars
    /\ UNCHANGED <<cursor, video_size, drag_vars, parent_size, playback_vars, held>>

\* VideoCropper.update_crop_from_fields -> CropOverlay.set_crop
update_crop_from_fields(x, y, w, h) ==
    /\ err = "none"
    /\ Ran("set_crop")
    /\ crop' = set_crop(<<x, y, w, h>>, video_size, aspect_ratio)
    /\ Refresh(crop', video_size, parent_size)
    /\ UNCHANGED <<cursor, video_size, aspect_ratio, drag_vars, parent_size,
                   playback_vars, held, err>>

\* VideoCropper.load_video -> CropOverlay.update_video_size
load_video(size, count) ==
    /\ err = "none"
    /\ Ran("load_video")
    /\ video_size' = size
    /\ crop' = update_video_size(size)
    /\ Refresh(crop', video_size', parent_size)
    /\ video_cap' = TRUE
    /\ frame_count' = count
    /\ timeline' = 0
    /\ crop_end' = count - 1
    /\ UNCHANGED <<cursor, aspect_ratio, drag_vars, parent_size, playing, held, err>>

\* VideoCropper.resizeEvent
resizeEvent(size) ==
    /\ err = "none"
    /\ size # parent_size
    /\ Ran("resizeEvent")
    /\ parent_size' = size
    /\ Refresh(crop, video_size, parent_size')
    /\ UNCHANGED <<cursor, video_size, aspect_ratio, crop, drag_vars,
                   playback_vars, held, err>>

\* CropOverlay.mousePressEvent
mousePressEvent(button, pos) ==
    /\ err = "none"
    /\ button \notin held
    /\ held' = held \cup {button}
    /\ Ran("mousePressEvent")
    /\ IF button # "Left"
       THEN UNCHANGED drag_vars
       ELSE LET corner == HitCorner(crop_rect, pos)
                edge1 == IF corner # "None" THEN corner ELSE drag_edge
                edge2 == IF edge1 = "None" /\ ~Truthy(aspect_ratio)
                         THEN HitEdge(crop_rect, pos) ELSE edge1
                move == edge2 = "None" /\ Contains(crop_rect, pos)
            IN /\ drag_edge' = edge2
               /\ resizing' = (resizing \/ corner # "None"
                                \/ (edge1 = "None" /\ edge2 # "None"))
               /\ dragging' = (dragging \/ move)
               /\ drag_offset' = IF move
                                 THEN <<pos[1] - RLeft(crop_rect),
                                        pos[2] - RTop(crop_rect)>>
                                 ELSE drag_offset
    /\ UNCHANGED <<cursor, video_size, aspect_ratio, crop, parent_size, display_vars,
                   playback_vars, err>>

\* mouseReleaseEvent leaving the captured handle in place
mouseReleaseEvent_keeps_handle(button) ==
    /\ err = "none"
    /\ button \in held
    /\ held' = held \ {button}
    /\ Ran("mouseReleaseEvent")
    /\ dragging' = FALSE
    /\ resizing' = FALSE
    /\ UNCHANGED <<cursor, video_size, aspect_ratio, crop, drag_edge, drag_offset,
                   parent_size, display_vars, playback_vars, err>>

\* CropOverlay.mouseReleaseEvent
mouseReleaseEvent(button) ==
    /\ err = "none"
    /\ button \in held
    /\ held' = held \ {button}
    /\ Ran("mouseReleaseEvent")
    /\ dragging' = FALSE
    /\ resizing' = FALSE
    /\ drag_edge' = "None"
    /\ UNCHANGED <<cursor, video_size, aspect_ratio, crop, drag_offset, parent_size,
                   display_vars, playback_vars, err>>

\* MoveEventRequest taking the move branch whether or not a drag is active
MoveEventRequest_unguarded(pos) ==
    MoveRequest(pos, crop, crop_rect, drag_offset, offset_x, offset_y,
                scaled_video_size, ratio_w)

\* the rectangle mouseMoveEvent hands to set_crop, <<>> when it calls none
MoveEventRequest(pos) ==
    LET mouse_vx == IntDiv(pos[1] - offset_x, ratio_w)
        mouse_vy == IntDiv(pos[2] - offset_y, ratio_w)
    IN IF dragging
       THEN MoveRequest(pos, crop, crop_rect, drag_offset, offset_x, offset_y,
                        scaled_video_size, ratio_w)
       ELSE IF resizing /\ drag_edge # "None"
       THEN IF drag_edge \in Corners
            THEN CornerRequest(drag_edge, crop, video_size, aspect_ratio,
                               mouse_vx, mouse_vy)
            ELSE IF ~Truthy(aspect_ratio)
            THEN EdgeRequest(drag_edge, crop, video_size, pos, offset_x,
                             offset_y, scaled_video_size, ratio_w)
            ELSE <<>>
       ELSE <<>>

\* CropOverlay.mouseMoveEvent
mouseMoveEvent(pos) ==
    /\ err = "none"
    /\ Ran("mouseMoveEvent")
    /\ cursor' = CursorFor(crop_rect, pos, aspect_ratio)
    /\ IF ~dragging /\ resizing /\ drag_edge # "None"
          /\ resize_raises(crop, aspect_ratio)
       THEN /\ err' = "ZeroDivisionError"
            /\ UNCHANGED <<crop, display_vars>>
       ELSE /\ err' = err
            /\ crop' = IF MoveEventRequest(pos) = <<>> THEN crop
                       ELSE set_crop(MoveEventRequest(pos), video_size,
                                     aspect_ratio)
            /\ Refresh(crop', video_size, parent_size)
    /\ UNCHANGED <<video_size, aspect_ratio, drag_vars, parent_size,
                   playback_vars, held>>

\* VideoCropper.seek_frame -> show_frame, on a change of the timeline slider
seek_frame(value) ==
    /\ err = "none"
    /\ value # timeline
    /\ value < frame_count
    /\ Ran("seek_frame")
    /\ timeline' = value
    /\ UNCHANGED <<overlay_vars, video_cap, frame_count, crop_end, playing,
                   held, err>>

\* VideoCropper.toggle_play
toggle_play ==
    /\ err = "none"
    /\ Ran("toggle_play")
    /\ playing' = ~playing
    /\ UNCHANGED <<overlay_vars, video_cap, frame_count, timeline, crop_end,
                   held, err>>

\* VideoCropper.set_crop_end
set_crop_end ==
    /\ err = "none"
    /\ Ran("set_crop_end")
    /\ crop_end' = timeline
    /\ UNCHANGED <<overlay_vars, video_cap, frame_count, timeline, playing,
                   held, err>>

\* VideoCropper.next_frame, the playback timer's tick
next_frame ==
    /\ err = "none"
    /\ playing
    /\ Ran("next_frame")
    /\ IF crop_end = -1
       THEN /\ err' = "TypeError"
            /\ UNCHANGED <<timeline, playing>>
       ELSE /\ err' = err
            /\ IF timeline + 1 > crop_end \/ timeline + 1 >= frame_count
               THEN playing' = FALSE /\ timeline' = timeline
               ELSE timeline' = timeline + 1 /\ playing' = playing
    /\ UNCHANGED <<overlay_vars, video_cap, frame_count, crop_end, held>>

Next ==
    \/ \E mode \in DOMAIN ASPECT_PRESETS : change_aspect_mode(mode)
    \/ \E x \in FieldXs, y \in FieldYs, w \in FieldWs, h \in FieldHs :
          update_crop_from_fields(x, y, w, h)
    \/ \E size \in FrameSizes : load_video(size, MaxFrames)
    \/ \E size \in DisplaySizes : resizeEvent(size)
    \/ \E button \in Buttons :
          \E pos \in PressPoints(crop_rect) : mousePressEvent(button, pos)
    \/ \E button \in Buttons : mouseReleaseEvent(button)
    \/ \E pos \in MovePoints : mouseMoveEvent(pos)

Spec == Init /\ [][Next]_vars

NextAspect ==
    \/ \E mode \in DOMAIN ASPECT_PRESETS : change_aspect_mode(mode)
    \/ \E size \in FrameSizes : load_video(size, MaxFrames)

SpecAspect == InitAspect /\ [][NextAspect]_vars

NextPlayback ==
    \/ \E size \in FrameSizes : load_video(size, MaxFrames)
    \/ \E mode \in {"Manual", "Square", "Landscape"} : change_aspect_mode(mode)
    \/ \E pos \in PressPoints(crop_rect) : mousePressEvent("Left", pos)
    \/ \E pos \in MovePoints : mouseMoveEvent(pos)
    \/ \E value \in 0..(MaxFrames - 1) : seek_frame(value)
    \/ toggle_play
    \/ set_crop_end
    \/ next_frame

SpecPlayback == InitPlayback /\ [][NextPlayback]_vars

NextEdge ==
    \/ \E size \in FrameSizes : load_video(size, MaxFrames)
    \/ \E mode \in {"Manual", "Portrait", "Landscape"} : change_aspect_mode(mode)
    \/ \E pos \in PressPoints(crop_rect) : mousePressEvent("Left", pos)
    \/ mouseReleaseEvent("Left")
    \/ \E pos \in MovePoints : mouseMoveEvent(pos)

SpecEdge == InitEdge /\ [][NextEdge]_vars

\* ------------------------------------------------------------------ claims

InFrame(c, vs) ==
    /\ 0 <= c[1]
    /\ 0 <= c[2]
    /\ c[1] + c[3] <= vs[1]
    /\ c[2] + c[4] <= vs[2]

\* w/h equals the constraint within integer rounding
RatioHolds(c, a) == c[3] = IntMul(c[4], a) \/ c[4] = IntDiv(c[3], a)

\* the last handler was a pointer move that updated the rectangle as a
\* whole-rectangle drag / as a corner resize
MovedAsDrag == lastOp = "mouseMoveEvent" /\ dragging /\ err = "none"
MovedAsCorner ==
    /\ lastOp = "mouseMoveEvent" /\ err = "none"
    /\ ~dragging /\ resizing /\ drag_edge \in Corners

\* C1: after any sequence of editor operations on a frame of at least 32x32
\* the crop rectangle lies inside the frame:
\* 0 <= x, 0 <= y, x + w <= frame width, y + h <= frame height.
C1_InFrame == InFrame(crop, video_size)

C1_Witness ==
    /\ MovedAsDrag
    /\ crop[1] > 0
    /\ crop[1] + crop[3] = video_size[1]
    /\ crop[3] < video_size[1]

\* C2: in every reachable state w >= 32 and h >= 32.
C2_MinSize == crop[3] >= min_size /\ crop[4] >= min_size

\* C3: no editor operation ever fails; set_aspect_ratio never reaches a
\* division by a zero width or height.
C3_NoFailure == err = "none"

\* C4: with a constraint r set, the rectangle produced by every set_crop call
\* and by every drag-driven update (move or corner resize) has
\* w = floor(h * r) or h = floor(w / r).
C4_AspectLock ==
    (/\ Truthy(aspect_ratio)
     /\ \/ lastOp = "set_crop"
        \/ MovedAsDrag
        \/ MovedAsCorner)
    => RatioHolds(crop, aspect_ratio)

C4_Witness ==
    /\ MovedAsCorner
    /\ drag_edge = "top-left"
    /\ aspect_ratio = <<191, 100>>
    /\ crop[3] < video_size[1]
    /\ crop[3] = IntMul(crop[4], aspect_ratio)

\* C5: in every reachable state, an active constraint implies that w/h equals
\* it within integer rounding (also after the reset of a video load).
C5_ConstraintImpliesRatio ==
    (Truthy(aspect_ratio) /\ err = "none") => RatioHolds(crop, aspect_ratio)

\* C6: a move event in the Moving state changes only the position: w and h are
\* kept, the rectangle stays inside the frame, and a pointer whose mapped
\* top-left would be negative pins the top-left to (0, 0).
C6_MoveKeepsSize ==
    [][\A pos \in MovePoints :
          (dragging /\ mouseMoveEvent(pos) /\ err' = "none") =>
             /\ crop'[3] = crop[3]
             /\ crop'[4] = crop[4]
             /\ InFrame(crop', video_size')
             /\ (/\ pos[1] - drag_offset[1] < offset_x
                 /\ pos[2] - drag_offset[2] < offset_y)
                => (crop'[1] = 0 /\ crop'[2] = 0)]_vars

\* twice the center of a rectangle, per axis
Center2(c) == <<2 * c[1] + c[3], 2 * c[2] + c[4]>>

\* C7: applying a constraint re-derives w or h around the center: the center
\* of the result is within 1 pixel of the previous center on each axis, and
\* (0, 0, 640, 360) on a 640x360 frame under 1:1 becomes (140, 0, 360, 360).
C7_SnapKeepsCenter ==
    [][(lastOp' = "set_aspect_ratio" /\ err' = "none" /\ Truthy(aspect_ratio')) =>
          /\ Abs(Center2(crop')[1] - Center2(crop)[1]) <= 2
          /\ Abs(Center2(crop')[2] - Center2(crop)[2]) <= 2
          /\ (/\ video_size = <<640, 360>>
              /\ crop = <<0, 0, 640, 360>>
              /\ aspect_ratio' = <<1, 1>>)
             => crop' = <<140, 0, 360, 360>>]_vars

C7_Witness ==
    /\ lastOp = "set_aspect_ratio"
    /\ err = "none"
    /\ video_size = <<640, 360>>
    /\ aspect_ratio = <<1, 1>>
    /\ crop = <<140, 0, 360, 360>>

\* a move event at pos taken as a bottom-right corner resize under a constraint
BRDrag(pos) ==
    /\ ~dragging /\ resizing /\ drag_edge = "bottom-right"
    /\ Truthy(aspect_ratio)
    /\ mouseMoveEvent(pos)

\* the height derived from the pointer's width would pass the frame's bottom
BROverflow(pos) ==
    LET mouse_vx == IntDiv(pos[1] - offset_x, ratio_w)
        new_w == Max(min_size, mouse_vx - crop[1])
    IN crop[2] + IntDiv(new_w, aspect_ratio) > video_size[2]

\* C8 (as claimed): a bottom-right drag under a constraint whose derived height
\* would pass the bottom of the frame yields the remaining height and the
\* width derived from it; on a 640x360 frame under 1:1, h = 360 and w = 360.
C8_OverflowClipped ==
    [][\A pos \in MovePoints :
          (BRDrag(pos) /\ BROverflow(pos)) =>
             /\ crop'[4] = video_size[2] - crop[2]
             /\ crop'[3] = IntMul(crop'[4], aspect_ratio)
             /\ (video_size = <<640, 360>> /\ aspect_ratio = <<1, 1>>)
                => (crop'[3] = 360 /\ crop'[4] = 360)]_vars

\* C8 (amended): such a drag yields a rectangle inside the frame whose w/h
\* equals the constraint within rounding; under 1:1, when the remaining height
\* is at least 32 and not more than the remaining width, the result is the
\* square of the remaining height at the same origin (360x360 from y = 0 on a
\* 640x360 frame), never a larger one.
C8_OverflowClippedInFrame ==
    [][\A pos \in MovePoints :
          (BRDrag(pos) /\ BROverflow(pos)) =>
             /\ InFrame(crop', video_size)
             /\ RatioHolds(crop', aspect_ratio)
             /\ (/\ aspect_ratio = <<1, 1>>
                 /\ video_size[2] - crop[2] >= min_size
                 /\ video_size[2] - crop[2] <= video_size[1] - crop[1])
                => crop' = <<crop[1], crop[2], video_size[2] - crop[2],
                             video_size[2] - crop[2]>>]_vars

C8_Witness ==
    /\ MovedAsCorner
    /\ drag_edge = "bottom-right"
    /\ aspect_ratio = <<1, 1>>
    /\ video_size = <<640, 360>>
    /\ cursor = "Cross"
    /\ crop = <<0, 0, 360, 360>>

\* C9: a video-size change resets the rectangle to the full new frame whatever
\* the state before; frame seeks and playback ticks leave the rectangle as is.
C9_ResetOnLoadOnly ==
    [][/\ lastOp' = "load_video"
          => crop' = <<0, 0, video_size'[1], video_size'[2]>>
       /\ lastOp' \in {"seek_frame", "next_frame"}
          => crop' = crop]_vars

C9_Witness ==
    /\ lastOp = "next_frame"
    /\ err = "none"
    /\ timeline > 0
    /\ Truthy(aspect_ratio)
    /\ crop # <<0, 0, video_size[1], video_size[2]>>

\* the corner diagonally opposite the dragged one
OppositeCorner(edge, c) ==
    CASE edge = "top-left" -> <<c[1] + c[3], c[2] + c[4]>>
      [] edge = "top-right" -> <<c[1], c[2] + c[4]>>
      [] edge = "bottom-left" -> <<c[1] + c[3], c[2]>>
      [] edge = "bottom-right" -> <<c[1], c[2]>>

\* C10: in Manual mode a corner resize keeps the diagonally opposite corner
\* where it was, for every pointer position of the move event.
C10_OppositeCornerFixed ==
    [][(/\ ~Truthy(aspect_ratio)
        /\ ~dragging /\ resizing /\ drag_edge \in Corners
        /\ lastOp' = "mouseMoveEvent" /\ err' = "none")
       => OppositeCorner(drag_edge, crop') = OppositeCorner(drag_edge, crop)]_vars

\* the coordinate of the edge opposite the dragged one
OppositeEdge(edge, c) ==
    CASE edge = "left" -> c[1] + c[3]
      [] edge = "right" -> c[1]
      [] edge = "top" -> c[2] + c[4]
      [] edge = "bottom" -> c[2]

\* the position and extent of the rectangle across the dragged edge's axis
Perpendicular(edge, c) ==
    IF edge \in {"left", "right"} THEN <<c[2], c[4]>> ELSE <<c[1], c[3]>>

\* C11: in Manual mode an edge resize keeps the opposite edge where it was,
\* leaves the perpendicular dimension unchanged, and the rectangle neither
\* shrinks below the minimum size nor crosses the frame, for every pointer
\* position of the move event.
C11_EdgeResizeAnchored ==
    [][(/\ ~Truthy(aspect_ratio)
        /\ ~dragging /\ resizing /\ drag_edge \in Edges
        /\ lastOp' = "mouseMoveEvent" /\ err' = "none")
       => /\ OppositeEdge(drag_edge, crop') = OppositeEdge(drag_edge, crop)
          /\ Perpendicular(drag_edge, crop') = Perpendicular(drag_edge, crop)
          /\ crop'[3] >= min_size /\ crop'[4] >= min_size
          /\ InFrame(crop', video_size')]_vars

\* the three states of the drag machine as values of the handler flags
\* <<dragging, resizing, drag_edge>>
IdleFlags == <<FALSE, FALSE, "None">>
MovingFlags == <<TRUE, FALSE, "None">>
ResizingFlags(handle) == <<FALSE, TRUE, handle>>

\* the flags encode exactly one state of the machine
DragStates ==
    {IdleFlags, MovingFlags} \cup {ResizingFlags(handle) : handle \in Corners \cup Edges}

\* C12: the flags always encode exactly one of Idle, Moving, Resizing(handle);
\* a left press goes to Resizing(corner) on a corner hit box whatever the
\* constraint, else to Resizing(edge) on an edge zone when no constraint is
\* active, else to Moving inside the rectangle, else stays Idle; every
\* release returns to Idle with the handle cleared.
C12_DragMachine ==
    [][/\ <<dragging, resizing, drag_edge>> \in DragStates
       /\ <<dragging, resizing, drag_edge>>' \in DragStates
       /\ \A pos \in PressPoints(crop_rect) :
             mousePressEvent("Left", pos) =>
                LET corner == HitCorner(crop_rect, pos)
                    edge == HitEdge(crop_rect, pos)
                    target == IF corner # "None" THEN ResizingFlags(corner)
                              ELSE IF ~Truthy(aspect_ratio) /\ edge # "None"
                              THEN ResizingFlags(edge)
                              ELSE IF Contains(crop_rect, pos) THEN MovingFlags
                              ELSE IdleFlags
                IN <<dragging', resizing', drag_edge'>> = target
       /\ lastOp' = "mouseReleaseEvent" =>
             <<dragging', resizing', drag_edge'>> = IdleFlags]_vars

\* a press on a corner handle under an aspect constraint started a resize
C12_Witness ==
    /\ lastOp = "mousePressEvent" /\ "Left" \in held
    /\ Truthy(aspect_ratio)
    /\ \E handle \in Corners :
          <<dragging, resizing, drag_edge>> = ResizingFlags(handle)

\* C13: a pointer move received while the drag state is Idle leaves the
\* crop rectangle, the aspect constraint and the drag state unchanged (and
\* raises nothing); only the cursor hint may change.
C13_HoverPure ==
    [][\A pos \in MovePoints :
          (<<dragging, resizing, drag_edge>> = IdleFlags /\ mouseMoveEvent(pos))
             => /\ crop' = crop
                /\ aspect_ratio' = aspect_ratio
                /\ drag_vars' = drag_vars
                /\ video_size' = video_size
                /\ display_vars' = display_vars
                /\ err' = "none"]_vars

\* a hover over a handle of a rectangle smaller than the frame
C13_Witness ==
    /\ lastOp = "mouseMoveEvent" /\ err = "none"
    /\ <<dragging, resizing, drag_edge>> = IdleFlags
    /\ cursor # "Cross"
    /\ crop # <<0, 0, video_size[1], video_size[2]>>

\* C14: set_crop is a fixed point on its own output: in every state, under
\* Manual and under every preset, set_crop(get_crop()) leaves the rectangle
\* exactly as it was.
C14_SetCropFixedPoint ==
    err = "none" => set_crop(crop, video_size, aspect_ratio) = crop

====
